---- MODULE Spec2Model ----
(***************************************************************************)
(* A model of the graph SSL solver engine of graphlearning.py.             *)
(*                                                                         *)
(* Arrays are functions on 0..len-1, as in the source (numpy arrays are    *)
(* 0-based and a negative index wraps around, see PyIdx).  Real numbers    *)
(* are integers or exact fractions of integers.  What scipy computes (the  *)
(* conjugate-gradient iterates) is a nondeterministic choice.              *)
(*                                                                         *)
(* The module holds one specification per part of the engine:              *)
(*   SpecHeap     the indexed heap driven by pushes, decrease-keys, pops   *)
(*   SpecNN       nearestneighbor (its Python traversal) and the label      *)
(*                selection of graph_ssl that follows it                    *)
(*   SpecNNFull   nearestneighbor called with every vertex labeled          *)
(*   SpecSSL      graph_ssl: the dispatch on the method token, with the     *)
(*                solvers' results left open                                *)
(*   SpecSolve    pcg_solve and constrained_solve around scipy's cg         *)
(*   SpecPL       plaplace_solve and its SemiImplicit iteration             *)
(*   SpecGD       plaplace_solve and its GradientDescent iteration          *)
(*   SpecPoisson  poisson and its diffusion loop                            *)
(*   SpecFun      one call of a utility function: LabelsToVec,              *)
(*                graph_laplacian, ProjectToSimplex, the source term of     *)
(*                poisson                                                   *)
(*   SpecOVR      the per-class binary solves of graph_ssl's one-vs-rest    *)
(*                branch, run in any order and interleaving                 *)
(***************************************************************************)
EXTENDS Integers, Sequences, FiniteSets, TLC

VARIABLES
    d,        \* key / distance array, indexed by vertex
    h,        \* heap array: vertex at each slot, slot 0 unused
    s,        \* number of elements in the heap
    p,        \* pointer from vertex back to its heap slot
    hst,      \* heap driver: per vertex "new", "in" or "out"
    popOk,    \* heap driver: the last PopHeap returned a vertex of least key
    W,        \* weight matrix of the call, W[i][j]
    I,        \* indices of the labeled vertices
    g,        \* their labels, g[j] the label of I[j]
    l,        \* nearestneighbor: index of the closest labeled vertex, -1 if none
    A,        \* nearestneighbor: active flag
    V,        \* nearestneighbor: finalized flag
    nnpc,     \* nearestneighbor: where the call stands
    ii,       \* nearestneighbor: position in I of the initial loop
    cur,      \* nearestneighbor: the vertex popped last (i of the source)
    pos,      \* nearestneighbor: position in WI of the neighbor loop
    stop,     \* nearestneighbor: end of the slice WI[K[i]:K[i+1]]
    WI,       \* nearestneighbor: row of each nonzero entry of W
    WV,       \* nearestneighbor: value of each nonzero entry of W
    K,        \* nearestneighbor: start of each column's entries in WI
    u,        \* the matrix a solver returned to graph_ssl (k rows, n columns)
    labels,   \* what graph_ssl returns
    method,   \* graph_ssl: the method token as passed
    mlow,     \* graph_ssl: method.lower()
    sslpc,    \* graph_ssl: where the call stands
    imported, \* outcome of "import cmodules.cgraphpy": "untried", "ok", "failed"
    Wsym,     \* graph_ssl: its symmetrized W, entries in halves (W + W^T)
    ncomp,    \* graph_ssl: num_comp of the connectivity check, -1 before it
    nsolve,   \* graph_ssl: solver calls made so far
    cls,      \* graph_ssl: row of u the one-vs-rest loop fills next
    retvec,   \* graph_ssl: return_vector, as read at line 1987
    csfun,    \* which solve is called: "pcg_solve" or "constrained_solve"
    cspc,     \* the solve: where the call stands
    csys,     \* constrained_solve: the reduced system [A, b]
    cgv,      \* the iterate scipy's cg returned
    cginfo,   \* the info scipy's cg returned: 0, or > 0 when it stopped at its cap
    csret,    \* what the solve returned to its caller
    csout,    \* what the solve printed
    plpc,     \* plaplace_solve: where the call stands
    sol_method, \* plaplace_solve: the solution method asked for
    plp,      \* plaplace_solve: p
    plerr,    \* plaplace_solve: err
    pli,      \* plaplace_solve: i, the number of loop bodies entered
    plres,    \* plaplace_solve: res as last computed, an array of fractions
    uu,       \* plaplace_solve: uu, the upper sequence, an array of fractions
    ul,       \* plaplace_solve: ul, the lower sequence, an array of fractions
    ppc,      \* poisson: where the call stands
    pv,       \* poisson: v, an array of fractions
    vinf,     \* poisson: vinf, an array of fractions
    pT,       \* poisson: T
    fname,    \* utility call: the function called
    farg,     \* utility call: the argument as it was when the call began
    fret,     \* utility call: what the call returned
    fout,     \* utility call: what the call printed
    fpc,      \* utility call: where the call stands
    ovrpc,    \* one-vs-rest: per class, where its binary solve stands
    hcls,     \* one-vs-rest: per class, the +1/-1 array h built for it
    vcls      \* one-vs-rest: per class, the v its solver returned

heapVars == <<d, h, s, p>>
drvVars  == <<hst, popOk>>
inVars   == <<W, I, g>>
nnVars   == <<l, A, V, nnpc, ii, cur, pos, stop, WI, WV, K>>
outVars  == <<u, labels>>
sslVars  == <<method, mlow, sslpc, imported, Wsym, ncomp, nsolve, cls, retvec>>
csVars   == <<csfun, cspc, csys, cgv, cginfo, csret, csout>>
plVars   == <<plpc, sol_method, plp, plerr, pli, plres, uu, ul>>
poVars   == <<ppc, pv, vinf, pT>>
funVars  == <<fname, farg, fret, fout, fpc>>
ovrVars  == <<ovrpc, hcls, vcls>>
vars     == <<heapVars, drvVars, inVars, nnVars, outVars, sslVars, csVars, plVars, poVars,
              funVars, ovrVars>>

\* what each specification leaves alone
OutsideHeap  == <<inVars, nnVars, outVars, sslVars, csVars, plVars, poVars, funVars, ovrVars>>
OutsideNN    == <<drvVars, sslVars, csVars, plVars, poVars, funVars, ovrVars>>
OutsideSSL   == <<heapVars, drvVars, nnVars, csVars, plVars, poVars, funVars, ovrVars>>
OutsideSolve == <<heapVars, drvVars, nnVars, outVars, sslVars, plVars, poVars, funVars, ovrVars>>
OutsidePL    == <<heapVars, drvVars, nnVars, labels, sslVars, csVars, poVars, funVars, ovrVars>>
OutsidePoisson == <<heapVars, drvVars, nnVars, outVars, sslVars, csVars, plVars, funVars, ovrVars>>
OutsideFun   == <<heapVars, drvVars, inVars, nnVars, outVars, sslVars, csVars, plVars, poVars,
                 ovrVars>>
OutsideOVR   == <<heapVars, drvVars, nnVars, labels, sslVars, csVars, plVars, poVars,
                 funVars>>

\* the values of the variables a specification does not use, and of the
\* locals of a call that has not started
NoHeap == d = <<>> /\ h = <<>> /\ s = 0 /\ p = <<>>
NoDriver == hst = <<>> /\ popOk = TRUE
NoInputs == W = <<>> /\ I = <<>> /\ g = <<>>
NoNNLocals ==
    /\ l = <<>> /\ A = <<>> /\ V = <<>>
    /\ ii = 0 /\ cur = -1 /\ pos = 0 /\ stop = 0
    /\ WI = <<>> /\ WV = <<>> /\ K = <<>>
NoNN == nnpc = "off" /\ NoNNLocals
NoOutput == u = <<>> /\ labels = <<>>
NoSSLLocals ==
    /\ mlow = "" /\ imported = "untried"
    /\ Wsym = <<>> /\ ncomp = -1 /\ nsolve = 0 /\ cls = 0 /\ retvec = FALSE
NoSSL == method = "" /\ sslpc = "off" /\ NoSSLLocals
NoSolveLocals == csys = <<>> /\ cgv = <<>> /\ cginfo = 0 /\ csret = <<>> /\ csout = <<>>
NoSolve == csfun = "" /\ cspc = "off" /\ NoSolveLocals
NoPLLocals == plerr = 0 /\ pli = 0 /\ plres = <<>> /\ uu = <<>> /\ ul = <<>>
NoPL == plpc = "off" /\ sol_method = "" /\ plp = 0 /\ NoPLLocals
NoPoissonLocals == pv = <<>> /\ vinf = <<>> /\ pT = 0
NoPoisson == ppc = "off" /\ NoPoissonLocals
NoFun == fname = "" /\ farg = <<>> /\ fret = <<>> /\ fout = <<>> /\ fpc = "off"
NoOVR == ovrpc = <<>> /\ hcls = <<>> /\ vcls = <<>>
NoSolvers == NoSolve /\ NoPL /\ NoPoisson /\ NoFun /\ NoOVR

(***************************************************************************)
(* Bounds of the model.                                                    *)
(***************************************************************************)
HeapN  == 4      \* vertices of the heap driver
MaxKey == 1      \* keys of the heap driver are 0..MaxKey
N      == 3      \* vertices of the graphs (W.shape[0])

Costs  == {0, 1, 2}   \* entries of W; 0 is "no edge"
Labels == {1, 2}      \* the label alphabet of g
LabeledSizes == 1 .. 2

\* d is initialised to 1e10 in the source.  TLC's integers are 32 bit, so the
\* model uses 10^9; every finite key or distance of the model is far below it.
BigDist == 1000000000

(***************************************************************************)
(* numpy indexing: a negative index k addresses element k + len.           *)
(***************************************************************************)
PyIdx(k, len) == IF k < 0 THEN k + len ELSE k

Size(arr) == Cardinality(DOMAIN arr)

\* d[h[slot]]
KeyAt(dd, hh, slot) == dd[PyIdx(hh[slot], Size(dd))]

\* the swap of two heap slots without the pointer updates
SwapWithoutPointers(hh, pp, i, j) ==
    [h |-> [hh EXCEPT ![j] = hh[i], ![i] = hh[j]], p |-> pp]

\* the swap of heap slots a and b with the two pointer updates that follow it
SwapSlots(hh, pp, i, j) ==
    LET h1 == [hh EXCEPT ![j] = hh[i], ![i] = hh[j]]
        p1 == [pp EXCEPT ![PyIdx(h1[i], Size(pp))] = i]
        p2 == [p1 EXCEPT ![PyIdx(h1[j], Size(pp))] = j]
    IN  [h |-> h1, p |-> p2]

RECURSIVE SiftUpLoop(_, _, _, _, _)
SiftUpLoop(dd, hh, pp, i, pi) ==
    IF pi = 0 THEN [h |-> hh, p |-> pp]
    ELSE IF KeyAt(dd, hh, pi) > KeyAt(dd, hh, i)
         THEN LET sw == SwapSlots(hh, pp, i, pi)
              IN  SiftUpLoop(dd, sw.h, sw.p, pi, pi \div 2)
         ELSE [h |-> hh, p |-> pp]

SiftUp(dd, hh, ss, pp, i) == SiftUpLoop(dd, hh, pp, i, i \div 2)

\* the child chosen by line 1641: d[h[ci+1]] is read before ci+1 <= s is tested
SmallestChild(dd, hh, ss, ci) ==
    IF KeyAt(dd, hh, ci + 1) < KeyAt(dd, hh, ci) /\ ci + 1 <= ss THEN ci + 1 ELSE ci

RECURSIVE SiftDownLoop(_, _, _, _, _, _)
SiftDownLoop(dd, hh, ss, pp, i, ci) ==
    IF ci > ss THEN [h |-> hh, p |-> pp]
    ELSE LET c == SmallestChild(dd, hh, ss, ci)
         IN  IF KeyAt(dd, hh, c) < KeyAt(dd, hh, i)
             THEN LET sw == SwapSlots(hh, pp, i, c)
                  IN  SiftDownLoop(dd, sw.h, ss, sw.p, c, 2 * c)
             ELSE [h |-> hh, p |-> pp]

\* a sift-down that only ever looks at the left child
SiftDownLeftOnly(dd, hh, ss, pp, i) ==
    LET RECURSIVE Go(_, _, _, _)
        Go(h1, p1, k, ci) ==
            IF ci > ss THEN [h |-> h1, p |-> p1]
            ELSE IF KeyAt(dd, h1, ci) < KeyAt(dd, h1, k)
                 THEN LET sw == SwapSlots(h1, p1, k, ci)
                      IN  Go(sw.h, sw.p, ci, 2 * ci)
                 ELSE [h |-> h1, p |-> p1]
    IN  Go(hh, pp, i, 2 * i)

SiftDown(dd, hh, ss, pp, i) == SiftDownLoop(dd, hh, ss, pp, i, 2 * i)

PopHeap(dd, hh, ss, pp) ==
    LET i  == hh[1]
        h1 == [hh EXCEPT ![1] = hh[ss]]
        p1 == [pp EXCEPT ![PyIdx(h1[1], Size(pp))] = 1]
        r  == SiftDown(dd, h1, ss - 1, p1, 1)
    IN  [i |-> i, s |-> ss - 1, h |-> r.h, p |-> r.p]

PushHeap(dd, hh, ss, pp, i) ==
    LET h1 == [hh EXCEPT ![ss + 1] = i]
        p1 == [pp EXCEPT ![i] = ss + 1]
        r  == SiftUp(dd, h1, ss + 1, p1, ss + 1)
    IN  [s |-> ss + 1, h |-> r.h, p |-> r.p]

(***************************************************************************)
(* The heap on its own: a driver that uses it the way its comments ask     *)
(* for.  A vertex gets its key, then is pushed; the key of a vertex in the *)
(* heap is only lowered, and SiftUp is called on its slot right after.     *)
(***************************************************************************)
HeapVertices == 0 .. HeapN - 1
Keys == 0 .. MaxKey

HeapKeys(dd, hh, ss) == {KeyAt(dd, hh, k) : k \in 1 .. ss}

SetMin(S) == CHOOSE x \in S : \A y \in S : x <= y

InitHeap ==
    /\ d = [v \in HeapVertices |-> BigDist]
    /\ h = [k \in 0 .. HeapN |-> -1]
    /\ s = 0
    /\ p = [v \in HeapVertices |-> -1]
    /\ hst = [v \in HeapVertices |-> "new"]
    /\ popOk = TRUE
    /\ NoInputs /\ NoNN /\ NoOutput /\ NoSSL /\ NoSolvers

DrvPush(v, key) ==
    /\ hst[v] = "new"
    /\ LET d1 == [d EXCEPT ![v] = key]
           r  == PushHeap(d1, h, s, p, v)
       IN  /\ d' = d1
           /\ h' = r.h
           /\ p' = r.p
           /\ s' = r.s
    /\ hst' = [hst EXCEPT ![v] = "in"]
    /\ UNCHANGED <<popOk, OutsideHeap>>

DrvDecreaseKey(v, key) ==
    /\ hst[v] = "in"
    /\ key < d[v]
    /\ LET d1 == [d EXCEPT ![v] = key]
           r  == SiftUp(d1, h, s, p, p[v])
       IN  /\ d' = d1
           /\ h' = r.h
           /\ p' = r.p
    /\ UNCHANGED <<s, hst, popOk, OutsideHeap>>

DrvPop ==
    /\ s > 0
    /\ LET r == PopHeap(d, h, s, p)
       IN  /\ h' = r.h
           /\ p' = r.p
           /\ s' = r.s
           /\ popOk' = (d[r.i] = SetMin(HeapKeys(d, h, s)))
           /\ hst' = [hst EXCEPT ![r.i] = "out"]
    /\ UNCHANGED <<d, OutsideHeap>>

NextHeap ==
    \/ \E v \in HeapVertices, key \in Keys : DrvPush(v, key)
    \/ \E v \in HeapVertices, key \in Keys : DrvDecreaseKey(v, key)
    \/ DrvPop

SpecHeap == InitHeap /\ [][NextHeap]_vars

\* C4: every PopHeap returns a vertex whose key is least among the keys in
\* the heap at that moment, provided keys are set before the push and only
\* lowered, with a SiftUp on the slot, afterwards.
PopReturnsMinimum == popOk

\* a pop has left three vertices in the heap, so that SiftDown saw both
\* children of the root, and the keys in the heap differ
PopFromFullHeapSeen ==
    /\ \E v \in HeapVertices : hst[v] = "out"
    /\ s >= 3
    /\ Cardinality(HeapKeys(d, h, s)) >= 2

\* C18: after every PushHeap, SiftUp, SiftDown and PopHeap the back-pointers
\* agree with the heap array: p[h[i]] = i for every occupied slot 1 <= i <= s,
\* and no vertex is in two occupied slots.
PointersMatchHeap ==
    /\ \A k \in 1 .. s : p[PyIdx(h[k], Size(p))] = k
    /\ \A a, b \in 1 .. s : a # b => h[a] # h[b]

\* pushes, a lowered key and a pop have moved vertices between slots: a
\* vertex that was popped still points at a slot that another vertex holds
PoppedPointerStale ==
    /\ s >= 2
    /\ \E v \in HeapVertices :
          /\ hst[v] = "out"
          /\ p[v] \in 1 .. s
          /\ h[p[v]] # v
    /\ \E a, b \in 1 .. s : a < b /\ h[a] > h[b]

(***************************************************************************)
(* Inputs of a solve: a symmetric weight matrix with zero diagonal, a      *)
(* duplicate-free index array I and one label per index.                   *)
(***************************************************************************)
Vertices == 0 .. N - 1

Pairs == {e \in Vertices \X Vertices : e[1] < e[2]}

SymGraphs ==
    {[i \in Vertices |-> [j \in Vertices |->
        IF i = j THEN 0 ELSE IF i < j THEN f[<<i, j>>] ELSE f[<<j, i>>]]] :
     f \in [Pairs -> Costs]}

IndexArrays ==
    {Ix \in UNION {[0 .. k - 1 -> Vertices] : k \in LabeledSizes} :
        \A a, b \in DOMAIN Ix : a # b => Ix[a] # Ix[b]}

LabelArrays(k) == [0 .. k - 1 -> Labels]

Range(arr) == {arr[k] : k \in DOMAIN arr}

(***************************************************************************)
(* scipy.sparse.find: the nonzero entries of W, ordered by column and,     *)
(* within a column, by row (the order the K array of the source relies on).*)
(***************************************************************************)
Nonzeros(Wm) == {e \in Vertices \X Vertices : Wm[e[1]][e[2]] # 0}

FindKey(e) == e[2] * N + e[1]

Find(Wm) ==
    LET S == Nonzeros(Wm)
    IN  [k \in 0 .. Cardinality(S) - 1 |->
            CHOOSE e \in S : Cardinality({f \in S : FindKey(f) < FindKey(e)}) = k]

FindRows(Wm) == [k \in DOMAIN Find(Wm) |-> Find(Wm)[k][1]]
FindCols(Wm) == [k \in DOMAIN Find(Wm) |-> Find(Wm)[k][2]]
FindVals(Wm) == [k \in DOMAIN Find(Wm) |-> Wm[Find(Wm)[k][1]][Find(Wm)[k][2]]]

\* K = append(0, append(nonzero(WJ[1:] - WJ[:-1]) + 1, len(WJ)))
ColumnStarts(WJ) ==
    LET m == Size(WJ)
        B == {k + 1 : k \in {x \in 0 .. m - 2 : WJ[x + 1] # WJ[x]}}
        S == {0} \cup B
    IN  [k \in 0 .. Cardinality(B) + 1 |->
            IF k = Cardinality(B) + 1 THEN m
            ELSE CHOOSE x \in S : Cardinality({y \in S : y < x}) = k]

(***************************************************************************)
(* np.unique and LabelsToVec.                                              *)
(***************************************************************************)
Unique(arr) ==
    LET S == Range(arr)
    IN  [k \in 0 .. Cardinality(S) - 1 |->
            CHOOSE x \in S : Cardinality({y \in S : y < x}) = k]

\* for i in range(k): L[L==labels[i]] = i, applied to L in place, one i after
\* the other
RECURSIVE Relabel(_, _, _)
Relabel(L, lab, i) ==
    IF i = Size(lab) THEN L
    ELSE Relabel([j \in DOMAIN L |-> IF L[j] = lab[i] THEN i ELSE L[j]], lab, i + 1)

\* X[L,range(n)] = 1 raises IndexError for a row index outside -k..k-1.
\* The field L is the argument as the call leaves it: the loop writes into
\* the array it was given.
LabelsToVec(L) ==
    LET lab == Unique(L)
        k   == Size(lab)
        L1  == Relabel(L, lab, 0)
    IN  IF \E j \in DOMAIN L1 : L1[j] >= k \/ L1[j] < -k
        THEN [err |-> TRUE, X |-> <<>>, labels |-> lab, L |-> L1]
        ELSE [err |-> FALSE,
              X |-> [r \in 0 .. k - 1 |->
                       [j \in DOMAIN L1 |-> IF PyIdx(L1[j], k) = r THEN 1 ELSE 0]],
              labels |-> lab, L |-> L1]

\* a[Ix] = vals: the assignments are made in the order of Ix
RECURSIVE AssignAt(_, _, _, _)
AssignAt(a, Ix, vals, k) ==
    IF k = Size(Ix) THEN a
    ELSE AssignAt([a EXCEPT ![PyIdx(Ix[k], Size(a))] = vals[k]], Ix, vals, k + 1)

\* K = ones(n)*g[0]; K[I] = g
FilledLabels(Ix, gg) == AssignAt([j \in Vertices |-> gg[0]], Ix, gg, 0)

\* LabelsToVec run on the caller's g itself
CallerLabelsArray(Ix, gg) == [obj |-> "g", val |-> gg]

\* the array a one-shot solver hands to LabelsToVec: the K of poisson (lines
\* 1432-1435) and of the solvers built like it, the u[l] of nearestneighbor
\* (1760), the argmax labels of volumeMBO (1070-1071).  Each is a new array
\* ("new"), none is the g of the caller ("g").
LabelsToVecArgument(Ix, gg) == [obj |-> "new", val |-> FilledLabels(Ix, gg)]

\* g as the caller holds it once LabelsToVec has run on arg
LabelsAfterCall(gg, arg) == IF arg.obj = "g" THEN LabelsToVec(arg.val).L ELSE gg

\* np.argmax(u, axis=0): the first row that holds the column's maximum
ArgMaxCol(X, j) ==
    CHOOSE r \in DOMAIN X :
        /\ \A q \in DOMAIN X : X[q][j] <= X[r][j]
        /\ \A q \in DOMAIN X : q < r => X[q][j] < X[r][j]

(***************************************************************************)
(* nearestneighbor, on the path taken when cmodules.cgraphpy cannot be     *)
(* imported.  One action per iteration of each of its loops.               *)
(***************************************************************************)
InitNN ==
    /\ W \in SymGraphs
    /\ I \in IndexArrays
    /\ g \in LabelArrays(Size(I))
    /\ nnpc = "start"
    /\ NoHeap /\ NoNNLocals /\ NoOutput /\ NoDriver /\ NoSSL /\ NoSolvers

\* lines 1692-1723
NNStart ==
    /\ nnpc = "start"
    /\ d' = [v \in Vertices |-> BigDist]
    /\ l' = [v \in Vertices |-> -1]
    /\ WI' = FindRows(W)
    /\ WV' = FindVals(W)
    /\ K' = ColumnStarts(FindCols(W))
    /\ s' = 0
    /\ h' = [k \in 0 .. N |-> -1]
    /\ A' = [v \in Vertices |-> FALSE]
    /\ p' = [v \in Vertices |-> -1]
    /\ V' = [v \in Vertices |-> FALSE]
    /\ ii' = 0
    /\ nnpc' = "init"
    /\ UNCHANGED <<inVars, cur, pos, stop, outVars, OutsideNN>>

\* lines 1727-1731, one iteration: the push comes before the distance is set
NNInitPush ==
    /\ nnpc = "init"
    /\ LET v == I[ii]
           r == PushHeap(d, h, s, p, v)
       IN  /\ h' = r.h /\ p' = r.p /\ s' = r.s
           /\ d' = [d EXCEPT ![v] = 0]
           /\ A' = [A EXCEPT ![v] = TRUE]
           /\ l' = [l EXCEPT ![v] = v]
    /\ ii' = ii + 1
    /\ nnpc' = IF ii + 1 = Size(I) THEN "loop" ELSE "init"
    /\ UNCHANGED <<inVars, V, cur, pos, stop, WI, WV, K, outVars, OutsideNN>>

\* lines 1734-1742: pop, finalize, and the slice of the neighbor loop
NNPop ==
    /\ nnpc = "loop"
    /\ s > 0
    /\ LET r == PopHeap(d, h, s, p)
           i == r.i
       IN  /\ h' = r.h /\ p' = r.p /\ s' = r.s
           /\ cur' = i
           /\ V' = [V EXCEPT ![i] = TRUE]
           /\ A' = [A EXCEPT ![i] = FALSE]
           /\ IF i + 1 >= Size(K)
              THEN nnpc' = "error" /\ UNCHANGED <<pos, stop>>
              ELSE /\ pos' = K[i]
                   /\ stop' = K[i + 1]
                   /\ nnpc' = IF K[i] < K[i + 1] THEN "relax" ELSE "loop"
    /\ UNCHANGED <<inVars, d, l, ii, WI, WV, K, outVars, OutsideNN>>

\* the entry taken off the distance instead of added to it
CandidateBelow(dd, i, j) == dd[i] - WV[j]

\* the candidate distance of lines 1745 and 1753: WV is indexed by the vertex j
Candidate(dd, i, j) == dd[i] + WV[j]

\* an update also when the candidate equals the tentative distance
UpdatesOnTie(tmp_dist, dj) == tmp_dist <= dj

\* line 1746: the test that lets a relaxation lower d[j] and take over l[j]
NeedsUpdate(tmp_dist, dj) == tmp_dist < dj

\* every entry of the slice is relaxed
AnyEntry(j, i) == TRUE

\* a neighbor is relaxed whether it is finalized or not
NotItself(j, i) == j # i

\* line 1743: the neighbors that are relaxed
NotFinalized(j, i) == j # i /\ V[j] = FALSE

\* lines 1742-1755, one neighbor j
NNRelax ==
    /\ nnpc = "relax"
    /\ LET j == WI[pos]
           i == cur
       IN  IF NotFinalized(j, i)
           THEN IF A[j]
                THEN IF j >= Size(WV)
                     THEN nnpc' = "error" /\ UNCHANGED <<d, h, s, p, l, A, pos>>
                     ELSE /\ IF NeedsUpdate(Candidate(d, i, j), d[j])
                             THEN LET d1 == [d EXCEPT ![j] = Candidate(d, i, j)]
                                      r  == SiftUp(d1, h, s, p, p[j])
                                  IN  /\ d' = d1 /\ h' = r.h /\ p' = r.p
                                      /\ l' = [l EXCEPT ![j] = l[i]]
                             ELSE UNCHANGED <<d, h, p, l>>
                          /\ pos' = pos + 1
                          /\ nnpc' = IF pos + 1 < stop THEN "relax" ELSE "loop"
                          /\ UNCHANGED <<s, A>>
                ELSE LET r == PushHeap(d, h, s, p, j)
                     IN  /\ h' = r.h /\ p' = r.p /\ s' = r.s
                         /\ IF j >= Size(WV)
                            THEN nnpc' = "error" /\ UNCHANGED <<d, l, A, pos>>
                            ELSE /\ d' = [d EXCEPT ![j] = Candidate(d, i, j)]
                                 /\ A' = [A EXCEPT ![j] = TRUE]
                                 /\ l' = [l EXCEPT ![j] = l[i]]
                                 /\ pos' = pos + 1
                                 /\ nnpc' = IF pos + 1 < stop THEN "relax" ELSE "loop"
           ELSE /\ pos' = pos + 1
                /\ nnpc' = IF pos + 1 < stop THEN "relax" ELSE "loop"
                /\ UNCHANGED <<d, h, s, p, l, A>>
    /\ UNCHANGED <<inVars, V, ii, cur, stop, WI, WV, K, outVars, OutsideNN>>

\* u = zeros(n); u[I] = g; u[l], where l[j] = -1 reads u[n-1]
NearestLabels(Ix, gg, ll) ==
    LET u0 == AssignAt([v \in Vertices |-> 0], Ix, gg, 0)
    IN  [j \in Vertices |-> u0[PyIdx(ll[j], N)]]

\* lines 1757-1762
NNLabels ==
    /\ nnpc = "loop"
    /\ s = 0
    /\ LET r == LabelsToVec(NearestLabels(I, g, l))
       IN  IF r.err
           THEN nnpc' = "error" /\ UNCHANGED u
           ELSE nnpc' = "done" /\ u' = r.X
    /\ UNCHANGED <<inVars, heapVars, l, A, V, ii, cur, pos, stop, WI, WV, K, labels,
                   OutsideNN>>

\* labels[I] = g left out
SelectNoPin(X, Ix, gg) ==
    [j \in Vertices |-> Unique(gg)[ArgMaxCol(X, j)]]

\* lines 1990-1995 of graph_ssl: argmax, unique(g)[...], labels[I] = g
SelectLabels(X, Ix, gg) ==
    AssignAt([j \in Vertices |-> Unique(gg)[ArgMaxCol(X, j)]], Ix, gg, 0)

\* unique(g)[max_locations] raises IndexError when a row index is not one of g's
SelectFails(X, gg) == \E j \in Vertices : ArgMaxCol(X, j) >= Size(Unique(gg))

\* lines 1987-1998 after nearestneighbor returned (return_vector=False)
NNSelect ==
    /\ nnpc = "done"
    /\ IF SelectFails(u, g)
       THEN nnpc' = "error" /\ UNCHANGED labels
       ELSE nnpc' = "returned" /\ labels' = SelectLabels(u, I, g)
    /\ UNCHANGED <<inVars, heapVars, l, A, V, ii, cur, pos, stop, WI, WV, K, u,
                   OutsideNN>>

NextNN ==
    \/ NNStart
    \/ NNInitPush
    \/ NNPop
    \/ NNRelax
    \/ NNLabels
    \/ NNSelect

SpecNN == InitNN /\ [][NextNN]_vars

(***************************************************************************)
(* What nearestneighbor is to compute: shortest path-weight distances.     *)
(***************************************************************************)
MinOf(S) == CHOOSE x \in S : \A y \in S : x <= y

\* one round of relaxation of every edge with its own weight W[x][v]
RelaxAll(Wm, dist) ==
    [v \in Vertices |->
        MinOf({dist[v]} \cup {dist[x] + Wm[x][v] : x \in {y \in Vertices : Wm[y][v] # 0}})]

RECURSIVE RelaxTimes(_, _, _)
RelaxTimes(Wm, dist, k) == IF k = 0 THEN dist ELSE RelaxTimes(Wm, RelaxAll(Wm, dist), k - 1)

\* the distance of every vertex from the nearest vertex of Src
TrueDist(Wm, Src) ==
    RelaxTimes(Wm, [v \in Vertices |-> IF v \in Src THEN 0 ELSE BigDist], N)

Reachable(Wm, Src) == {v \in Vertices : TrueDist(Wm, Src)[v] < BigDist}

Connected(Wm) == Reachable(Wm, {0}) = Vertices

\* the label the returned one-hot matrix X gives vertex j, read as graph_ssl
\* reads it: the label of g whose rank is the row of the 1
ResultLabel(X, gg, j) == Unique(gg)[ArgMaxCol(X, j)]

\* the labels of the labeled vertices nearest to j
NearestSourceLabels(Wm, Ix, gg, j) ==
    {gg[k] : k \in {x \in DOMAIN Ix :
                      TrueDist(Wm, {Ix[x]})[j] = TrueDist(Wm, Range(Ix))[j]}}

\* C3: on a connected graph the traversal ends with the true shortest-path
\* distance in d[j] and with the label of a nearest labeled vertex for j.
NearestNeighborCorrect ==
    (nnpc \in {"done", "error"} /\ Connected(W)) =>
        /\ nnpc = "done"
        /\ \A j \in Vertices :
              /\ d[j] = TrueDist(W, Range(I))[j]
              /\ ResultLabel(u, g, j) \in NearestSourceLabels(W, I, g, j)

\* C5: with a vertex that no labeled vertex reaches, the call ends without
\* an error and the result does not give that vertex a label of g.
UnreachableKeepSentinel ==
    (nnpc \in {"done", "returned", "error"} /\ Reachable(W, Range(I)) # Vertices) =>
        /\ nnpc # "error"
        /\ \A j \in Vertices \ Reachable(W, Range(I)) :
              /\ l[j] = -1
              /\ \A r \in DOMAIN u : u[r][j] = 0

\* the traversal is between two heap operations: the initial pushes are done,
\* or a pop or a relaxation has just finished
BetweenHeapOperations == nnpc \in {"loop", "relax"}

\* C17: at every point between heap operations of the traversal the heap is
\* a min-heap: d[h[i]] >= d[h[i/2]] for every occupied slot i with 1 < i <= s.
HeapOrderedInTraversal ==
    BetweenHeapOperations =>
        \A k \in 2 .. s : KeyAt(d, h, k) >= KeyAt(d, h, k \div 2)

\* C19: when the relaxation of a finalized vertex i gives a neighbor j that
\* is not finalized a distance, that distance is d[i] + w(i,j), w(i,j) being
\* the entry of W for the edge between i and j.
CandidateIsEdgeWeight ==
    [][\A j \in Vertices :
          (nnpc = "relax" /\ nnpc' \in {"relax", "loop"} /\ d'[j] # d[j]) =>
              d'[j] = d[cur] + W[cur][j]]_vars

\* the label of g that vertex j carries: the label of its source l[j]
SourceLabel(ll, j) == NearestLabels(I, g, ll)[j]

\* the next step relaxes the active vertex j from the vertex just finalized,
\* with a candidate equal to d[j] and a source label other than the one j has
TieRelaxation(j) ==
    /\ nnpc = "relax"
    /\ WI[pos] = j
    /\ j # cur /\ V[j] = FALSE /\ A[j]
    /\ j < Size(WV)
    /\ Candidate(d, cur, j) = d[j]
    /\ SourceLabel(l, cur) # SourceLabel(l, j)

\* C20 as stated: a vertex reached at equal candidate distance by two
\* relaxations that carry different source labels gets the label of the later
\* relaxation (last relaxation wins).
LastRelaxationWins ==
    [][\A j \in Vertices :
          TieRelaxation(j) => SourceLabel(l', j) = SourceLabel(l, cur)]_vars

\* C20: a relaxation that reaches an active vertex at a candidate distance
\* equal to its tentative distance changes neither the distance nor the
\* label: the vertex keeps the label of the earlier relaxation.
TieKeepsEarlierLabel ==
    [][\A j \in Vertices :
          TieRelaxation(j) => d'[j] = d[j] /\ l'[j] = l[j]]_vars

\* the relaxation just made reached j at its tentative distance with another
\* label, and j still has the label it had
TieKeptEarlierLabel ==
    /\ nnpc \in {"relax", "loop"}
    /\ cur \in Vertices
    /\ pos > K[cur]
    /\ LET j == WI[pos - 1]
       IN  /\ j # cur /\ V[j] = FALSE /\ A[j]
           /\ j < Size(WV)
           /\ Candidate(d, cur, j) = d[j]
           /\ SourceLabel(l, cur) # SourceLabel(l, j)

\* the while loop of line 1733 has just found the heap empty
TraversalEnded == nnpc = "loop" /\ s = 0

\* an index of the traversal was out of range: the call is aborted before
\* the labels are built
TraversalAborted == nnpc = "error" /\ u = <<>>

\* C21: the traversal is never aborted, it ends when the heap is empty, and
\* then the finalized vertices are exactly the vertices that a labeled vertex
\* reaches along edges of W.
EndsWithReachableFinalized ==
    /\ ~TraversalAborted
    /\ TraversalEnded =>
          \A j \in Vertices : V[j] <=> j \in Reachable(W, Range(I))

\* C25: vertices are finalized in non-decreasing order of distance: the d of
\* the vertex popped last is at least the d of every vertex popped before.
PopsInDistanceOrder ==
    cur \in Vertices => \A v \in Vertices : V[v] => d[v] <= d[cur]

\* the vertices in the occupied slots of the heap
InHeap(hh, ss) == {hh[k] : k \in 1 .. ss}

\* what a step of the traversal may do to the vertices
LifecycleStep ==
    nnpc \in {"init", "loop", "relax"} =>
        \A v \in Vertices :
            /\ (v \notin InHeap(h, s) /\ v \in InHeap(h', s')) =>
                  /\ ~A[v] /\ ~V[v]
                  /\ (A'[v] /\ ~V'[v]) \/ nnpc' = "error"
            /\ (v \in InHeap(h, s) /\ v \notin InHeap(h', s')) =>
                  A[v] /\ ~V[v] /\ V'[v] /\ ~A'[v]
            /\ (A'[v] /\ ~A[v]) => (v \notin InHeap(h, s) /\ v \in InHeap(h', s'))
            /\ (V'[v] /\ ~V[v]) => (v \in InHeap(h, s) /\ v \notin InHeap(h', s'))
            /\ V[v] => (V'[v] /\ ~A'[v] /\ v \notin InHeap(h', s'))
            /\ A[v] => (A'[v] \/ V'[v])

\* C26: a vertex goes from inactive to active to finalized and never back:
\* it is pushed only while inactive and becomes active with the push, it is
\* popped only while active and becomes finalized with the pop, and a
\* finalized vertex stays finalized, out of the heap and not active.
VertexLifecycle == [][LifecycleStep]_vars

\* a vertex that is not labeled has been pushed by a relaxation and popped,
\* and it has a finalized neighbor and a neighbor still in the heap
RelaxedVertexFinalized ==
    /\ nnpc \in {"loop", "relax"}
    /\ \E v \in Vertices \ Range(I) :
          /\ V[v]
          /\ \E x \in Vertices : x # v /\ W[v][x] # 0 /\ V[x]
          /\ \E y \in Vertices : W[v][y] # 0 /\ A[y] /\ y \in InHeap(h, s)

\* C27: once a vertex is finalized, no later step changes its d or its l.
FinalizedKeepDistanceAndLabel ==
    [][\A v \in DOMAIN V : V[v] => (d'[v] = d[v] /\ l'[v] = l[v])]_vars

\* the relaxation just made met a neighbor that was finalized before the
\* vertex popped last, with a candidate other than the neighbor's distance
FinalizedNeighborSkipped ==
    /\ nnpc \in {"relax", "loop"}
    /\ cur \in Vertices
    /\ pos > K[cur]
    /\ LET j == WI[pos - 1]
       IN  /\ j # cur /\ V[j]
           /\ j < Size(WV)
           /\ Candidate(d, cur, j) # d[j]

\* C28: once the initial pushes are done, every labeled vertex keeps
\* distance 0 and itself as its closest labeled vertex, so that u[l] gives it
\* its own label.
LabeledVerticesKeepZero ==
    nnpc \in {"loop", "relax", "done", "returned", "error"} =>
        \A k \in DOMAIN I :
            /\ d[I[k]] = 0
            /\ l[I[k]] = I[k]
            /\ SourceLabel(l, I[k]) = g[k]

\* the relaxation just made reached a labeled vertex that is still in the
\* heap, from a vertex with another label
LabeledNeighborReached ==
    /\ nnpc \in {"relax", "loop"}
    /\ cur \in Vertices
    /\ pos > K[cur]
    /\ LET j == WI[pos - 1]
       IN  /\ j \in Range(I)
           /\ j # cur /\ V[j] = FALSE /\ A[j]
           /\ SourceLabel(l, cur) # SourceLabel(l, j)

\* nearestneighbor called with every vertex labeled: the heap holds N
\* vertices when the traversal starts
FullIndexArrays ==
    {Ix \in [Vertices -> Vertices] : \A a, b \in Vertices : a # b => Ix[a] # Ix[b]}

InitNNFull ==
    /\ W \in SymGraphs
    /\ I \in FullIndexArrays
    /\ g \in LabelArrays(N)
    /\ nnpc = "start"
    /\ NoHeap /\ NoNNLocals /\ NoOutput /\ NoDriver /\ NoSSL /\ NoSolvers

SpecNNFull == InitNNFull /\ [][NextNN]_vars

\* the heap slots whose keys SiftDown compares from slot i on: line 1641
\* reads slots ci+1 and ci, line 1644 the chosen child and i
RECURSIVE SiftDownCompared(_, _, _, _, _, _)
SiftDownCompared(dd, hh, ss, pp, i, ci) ==
    IF ci > ss THEN {}
    ELSE LET c == SmallestChild(dd, hh, ss, ci)
         IN  {ci + 1, ci, c, i} \cup
             IF KeyAt(dd, hh, c) < KeyAt(dd, hh, i)
             THEN LET sw == SwapSlots(hh, pp, i, c)
                  IN  SiftDownCompared(dd, sw.h, ss, sw.p, c, 2 * c)
             ELSE {}

\* the slots compared by the SiftDown(d,h,s-1,p,1) of PopHeap (line 1674)
PopCompared(dd, hh, ss, pp) ==
    LET h1 == [hh EXCEPT ![1] = hh[ss]]
        p1 == [pp EXCEPT ![PyIdx(h1[1], Size(pp))] = 1]
    IN  SiftDownCompared(dd, h1, ss - 1, p1, 1, 2)

\* the slots compared by SiftUp from slot i on (line 1618)
RECURSIVE SiftUpCompared(_, _, _, _, _)
SiftUpCompared(dd, hh, pp, i, pi) ==
    IF pi = 0 THEN {}
    ELSE {pi, i} \cup
         IF KeyAt(dd, hh, pi) > KeyAt(dd, hh, i)
         THEN LET sw == SwapSlots(hh, pp, i, pi)
              IN  SiftUpCompared(dd, sw.h, sw.p, pi, pi \div 2)
         ELSE {}

\* C30: during the traversal with a duplicate-free labeled set the heap
\* size s stays within 0..n, a push writes a slot within 1..n, and every
\* key comparison of a heap function is between occupied slots 1..s (the s
\* the function is given: s+1 in a push, s-1 in a pop).
HeapAccessWithinOccupiedSlots ==
    /\ nnpc \in {"init", "loop", "relax"} => s \in 0 .. N
    /\ nnpc = "init" =>
           /\ s + 1 \in 1 .. N
           /\ SiftUpCompared(d, [h EXCEPT ![s + 1] = I[ii]], [p EXCEPT ![I[ii]] = s + 1],
                             s + 1, (s + 1) \div 2) \subseteq 1 .. s + 1
    /\ (nnpc = "loop" /\ s > 0) => PopCompared(d, h, s, p) \subseteq 1 .. s - 1

(***************************************************************************)
(* graph_ssl.  The solvers it dispatches to are left open here: a solve    *)
(* returns some score matrix (one-shot methods) or some score row (one     *)
(* class of a one-vs-rest method).  What is modelled is what graph_ssl     *)
(* itself does around them, and the import of the native module that some  *)
(* solvers begin with.                                                     *)
(***************************************************************************)
OneShotMethods ==
    {"mbo", "poisson", "poissonmbo", "poissonl1", "nearestneighbor",
     "poissonmbobalanced", "volumembo", "poissonvolumembo",
     "dynamiclabelpropagation", "sparselabelpropagation", "centeredkernel"}

OneVsRestMethods ==
    {"laplace", "shift", "meanshift", "wnll", "properlyweighted", "plaplace",
     "randomwalk"}

\* tokens a caller may pass: the enumerated ones, some of them in another
\* case, and tokens that are not enumerated
Tokens == OneShotMethods \cup OneVsRestMethods \cup {"Laplace", "POISSON", "VolumeMBO", "laplacian", "Nearest"}

\* str.lower() on the tokens of the model
Lower(tok) ==
    CASE tok = "Laplace" -> "laplace"
      [] tok = "POISSON" -> "poisson"
      [] tok = "VolumeMBO" -> "volumembo"
      [] tok = "Nearest" -> "nearest"
      [] OTHER -> tok

\* the solvers that start by importing cmodules.cgraphpy and call sys.exit()
\* when that fails (volumeMBO, poisson_volumeMBO; plaplace_solve with the
\* default sol_method "GradientDescentCcode" does so after its first
\* constrained_solve)
ExitsWithoutModule == {"volumembo", "poissonvolumembo", "plaplace"}

\* the solvers that import cmodules.cgraphpy at all
UsesModule == ExitsWithoutModule \cup {"nearestneighbor"}

\* the weight matrices of this specification: the chain 0 -> 1 -> .. -> m-1
\* of one-directional links (not symmetric), over all N vertices or with the
\* last vertex left out of it
Chain(m) == [i \in Vertices |-> [j \in Vertices |-> IF j = i + 1 /\ j < m THEN 1 ELSE 0]]

ChainGraphs == {Chain(m) : m \in {N - 1, N}}

\* (W + W.transpose())/2, in halves
Symmetrize(Wm) == [i \in Vertices |-> [j \in Vertices |-> Wm[i][j] + Wm[j][i]]]

\* csgraph.connected_components: the number of components
RECURSIVE Component(_, _)
Component(Wm, S) ==
    LET T == S \cup {v \in Vertices : \E x \in S : Wm[x][v] # 0 \/ Wm[v][x] # 0}
    IN  IF T = S THEN S ELSE Component(Wm, T)

NumComponents(Wm) == Cardinality({Component(Wm, {v}) : v \in Vertices})

\* the score rows a solver may return: 1 on the first m vertices, -1 on the
\* others
ScoreRows == {[v \in Vertices |-> IF v < m THEN 1 ELSE -1] : m \in 0 .. N}
ScoreMatrices(k) == [0 .. k - 1 -> ScoreRows]

NumClasses(gg) == Size(Unique(gg))

InitSSL ==
    /\ W \in ChainGraphs
    /\ I \in IndexArrays
    /\ g \in LabelArrays(Size(I))
    /\ method \in Tokens
    /\ sslpc = "start"
    /\ NoSSLLocals /\ NoOutput /\ NoHeap /\ NoDriver /\ NoNN /\ NoSolvers

\* lines 1907-1915
SSLStart ==
    /\ sslpc = "start"
    /\ mlow' = Lower(method)
    /\ Wsym' = Symmetrize(W)
    /\ sslpc' = "connectivity"
    /\ UNCHANGED <<inVars, outVars, method, imported, ncomp, nsolve, cls, retvec,
                   OutsideSSL>>

\* lines 1917-1923 and, for a one-vs-rest method, 1954-1956
SSLConnectivity ==
    /\ sslpc = "connectivity"
    /\ ncomp' = NumComponents(Wsym)
    /\ IF mlow \in OneShotMethods
       THEN sslpc' = "oneshot" /\ UNCHANGED <<u, cls>>
       ELSE /\ sslpc' = "onevsrest"
            /\ u' = [r \in 0 .. NumClasses(g) - 1 |-> [v \in Vertices |-> 0]]
            /\ cls' = 0
    /\ UNCHANGED <<inVars, labels, method, mlow, imported, Wsym, nsolve, retvec,
                   OutsideSSL>>

\* lines 1925-1950: a one-shot solver that does not import the native module
SSLOneShot ==
    /\ sslpc = "oneshot"
    /\ mlow \notin UsesModule
    /\ u' \in ScoreMatrices(NumClasses(g))
    /\ g' = LabelsAfterCall(g, LabelsToVecArgument(I, g))
    /\ nsolve' = nsolve + 1
    /\ sslpc' = "select"
    /\ UNCHANGED <<W, I, labels, method, mlow, imported, Wsym, ncomp, cls, retvec,
                   OutsideSSL>>

\* what a solver does once the import of cmodules.cgraphpy has failed
AfterFailedImport(m) == IF m \in ExitsWithoutModule THEN "exit" ELSE "select"

\* lines 1927-1930, 1945-1950: volumeMBO, poisson_volumeMBO, nearestneighbor
SSLOneShotNative ==
    /\ sslpc = "oneshot"
    /\ mlow \in UsesModule
    /\ \E ok \in BOOLEAN :
          /\ imported' = IF ok THEN "ok" ELSE "failed"
          /\ sslpc' = IF ok THEN "select" ELSE AfterFailedImport(mlow)
    /\ IF sslpc' = "select"
       THEN /\ u' \in ScoreMatrices(NumClasses(g))
            /\ g' = LabelsAfterCall(g, LabelsToVecArgument(I, g))
            /\ nsolve' = nsolve + 1
       ELSE UNCHANGED <<u, g, nsolve>>
    /\ UNCHANGED <<W, I, labels, method, mlow, Wsym, ncomp, cls, retvec, OutsideSSL>>

\* lines 1957-1985, one class: the solvers that cannot fail here
SSLClassSolve ==
    /\ sslpc = "onevsrest"
    /\ mlow \in {"laplace", "shift", "meanshift", "wnll", "randomwalk"}
    /\ \E v \in ScoreRows : u' = [u EXCEPT ![cls] = v]
    /\ nsolve' = nsolve + 1
    /\ cls' = cls + 1
    /\ sslpc' = IF cls + 1 = NumClasses(g) THEN "select" ELSE "onevsrest"
    /\ UNCHANGED <<inVars, labels, method, mlow, imported, Wsym, ncomp, retvec,
                   OutsideSSL>>

\* lines 1970-1974: without the raw data points X the call exits
SSLProperlyWeighted ==
    /\ sslpc = "onevsrest"
    /\ mlow = "properlyweighted"
    /\ \E hasX \in BOOLEAN :
          IF hasX
          THEN /\ \E v \in ScoreRows : u' = [u EXCEPT ![cls] = v]
               /\ nsolve' = nsolve + 1
               /\ cls' = cls + 1
               /\ sslpc' = IF cls + 1 = NumClasses(g) THEN "select" ELSE "onevsrest"
          ELSE sslpc' = "exit" /\ UNCHANGED <<u, nsolve, cls>>
    /\ UNCHANGED <<inVars, labels, method, mlow, imported, Wsym, ncomp, retvec,
                   OutsideSSL>>

\* lines 1975-1976 with plaplace_solve lines 777-797: the harmonic solve comes
\* first, the import after it
SSLPLaplace ==
    /\ sslpc = "onevsrest"
    /\ mlow = "plaplace"
    /\ \E ok \in BOOLEAN :
          /\ imported' = IF ok THEN "ok" ELSE "failed"
          /\ IF (IF ok THEN "select" ELSE AfterFailedImport(mlow)) = "select"
             THEN /\ \E v \in ScoreRows : u' = [u EXCEPT ![cls] = v]
                  /\ nsolve' = nsolve + 2
                  /\ cls' = cls + 1
                  /\ sslpc' = IF cls + 1 = NumClasses(g) THEN "select" ELSE "onevsrest"
             ELSE /\ sslpc' = "exit"
                  /\ nsolve' = nsolve + 1
                  /\ UNCHANGED <<u, cls>>
    /\ UNCHANGED <<inVars, labels, method, mlow, Wsym, ncomp, retvec, OutsideSSL>>

\* lines 1979-1981: no branch of the loop body knows the token
SSLInvalidMethod ==
    /\ sslpc = "onevsrest"
    /\ mlow \notin OneVsRestMethods
    /\ sslpc' = "exit"
    /\ UNCHANGED <<inVars, outVars, method, mlow, imported, Wsym, ncomp, nsolve, cls,
                   retvec, OutsideSSL>>

\* np.transpose(u)
Transpose(X) == [j \in Vertices |-> [r \in DOMAIN X |-> X[r][j]]]

\* lines 1987-1998
SSLReturn ==
    /\ sslpc = "select"
    /\ \E rv \in BOOLEAN :
          /\ retvec' = rv
          /\ IF rv
             THEN labels' = Transpose(u) /\ sslpc' = "returned"
             ELSE IF SelectFails(u, g)
                  THEN sslpc' = "error" /\ UNCHANGED labels
                  ELSE labels' = SelectLabels(u, I, g) /\ sslpc' = "returned"
    /\ UNCHANGED <<inVars, u, method, mlow, imported, Wsym, ncomp, nsolve, cls,
                   OutsideSSL>>

NextSSL ==
    \/ SSLStart
    \/ SSLConnectivity
    \/ SSLOneShot
    \/ SSLOneShotNative
    \/ SSLClassSolve
    \/ SSLProperlyWeighted
    \/ SSLPLaplace
    \/ SSLInvalidMethod
    \/ SSLReturn

SpecSSL == InitSSL /\ [][NextSSL]_vars

\* C1: the hard label vector graph_ssl returns has g[j] at I[j] for every
\* position j of the labeled set, whatever scores the solver returned.
LabeledVerticesPinned ==
    (sslpc = "returned" /\ ~retvec) => \A j \in DOMAIN I : labels[I[j]] = g[j]

\* graph_ssl has returned hard labels although the scores favoured another
\* label at a labeled vertex
PinnedAgainstScores ==
    /\ sslpc = "returned" /\ ~retvec
    /\ \E j \in DOMAIN I : Unique(g)[ArgMaxCol(u, I[j])] # g[j]

NoAbortWithoutModule == ~(imported = "failed" /\ sslpc = "exit")

\* C7: a token outside the enumerated set aborts the call before anything
\* was computed: no symmetrization, no connectivity check, no solver step.
InvalidMethodAbortsFirst ==
    (sslpc = "exit" /\ mlow \notin OneShotMethods \cup OneVsRestMethods) =>
        /\ Wsym = <<>>
        /\ ncomp = -1
        /\ nsolve = 0
        /\ labels = <<>>

(***************************************************************************)
(* pcg_solve and constrained_solve.  scipy's conjugate-gradient routine    *)
(* returns a pair (x, info): some iterate, and info = 0 when the tolerance *)
(* was met or the number of iterations made when it stopped at its cap.    *)
(***************************************************************************)
\* degrees that leave the diagonal of W out
DegreesOffDiagonal(Wm) ==
    LET RECURSIVE RowSum(_, _)
        RowSum(i, j) ==
            IF j = N THEN 0 ELSE (IF i = j THEN 0 ELSE Wm[i][j]) + RowSum(i, j + 1)
    IN  [i \in Vertices |-> RowSum(i, 0)]

\* degrees(W): the row sums
Degrees(Wm) ==
    LET RECURSIVE RowSum(_, _)
        RowSum(i, j) == IF j = N THEN 0 ELSE Wm[i][j] + RowSum(i, j + 1)
    IN  [i \in Vertices |-> RowSum(i, 0)]

\* graph_laplacian(W, norm="none"): D - W
GraphLaplacian(Wm) ==
    [i \in Vertices |-> [j \in Vertices |->
        (IF i = j THEN Degrees(Wm)[i] ELSE 0) - Wm[i][j]]]

\* idx = full(n, True); idx[I] = False
FreeMask(Ix) == AssignAt([v \in Vertices |-> TRUE], Ix, [k \in DOMAIN Ix |-> FALSE], 0)

\* the positions where idx is True, in increasing order
FreeIndices(Ix) ==
    LET S == {v \in Vertices : FreeMask(Ix)[v]}
    IN  [k \in 0 .. Cardinality(S) - 1 |->
            CHOOSE x \in S : Cardinality({y \in S : y < x}) = k]

\* b = -L[:,I]*g; b = b[idx]
ReducedRhs(Lm, Ix, gg) ==
    LET RECURSIVE Dot(_, _)
        Dot(i, k) == IF k = Size(Ix) THEN 0 ELSE Lm[i][Ix[k]] * gg[k] + Dot(i, k + 1)
        F == FreeIndices(Ix)
    IN  [k \in DOMAIN F |-> 0 - Dot(F[k], 0)]

\* A = L[idx,:]; A = A[:,idx]
ReducedMatrix(Lm, Ix) ==
    LET F == FreeIndices(Ix)
    IN  [a \in DOMAIN F |-> [b \in DOMAIN F |-> Lm[F[a]][F[b]]]]

\* u[idx] = v
AssignFree(a, Ix, v) == AssignAt(a, FreeIndices(Ix), v, 0)

\* the scatter without the last assignment u[I] = g
ScatterNoLabels(Ix, gg, v) == AssignFree([j \in Vertices |-> 1], Ix, v)

\* u = ones(n); u[idx] = v; u[I] = g
Scatter(Ix, gg, v) == AssignAt(AssignFree([j \in Vertices |-> 1], Ix, v), Ix, gg, 0)

\* the values of an entry of a cg iterate
CGValues == {-1, 0, 2}

\* m*10 is scipy's iteration cap for a system of size m
CGInfos(m) == {0, 10 * m}

\* what pcg_solve and constrained_solve hand back: the vector alone
Returned(vec, info) == [u |-> vec]

InitSolve ==
    /\ csfun \in {"pcg_solve", "constrained_solve"}
    /\ W \in ChainGraphs
    /\ I \in IndexArrays
    /\ g \in LabelArrays(Size(I))
    /\ cspc = "start"
    /\ NoSolveLocals /\ NoOutput /\ NoHeap /\ NoDriver /\ NoNN /\ NoSSL /\ NoPL /\ NoPoisson /\ NoFun
    /\ NoOVR

\* pcg_solve, lines 523-538
PCGSolve ==
    /\ cspc = "start"
    /\ csfun = "pcg_solve"
    /\ cgv' \in [Vertices -> CGValues]
    /\ cginfo' \in CGInfos(N)
    /\ csret' = Returned(cgv', cginfo')
    /\ cspc' = "returned"
    /\ UNCHANGED <<inVars, csfun, csys, csout, OutsideSolve>>

\* constrained_solve, lines 544-567
CSReduce ==
    /\ cspc = "start"
    /\ csfun = "constrained_solve"
    /\ LET Lm == GraphLaplacian(Symmetrize(W))
       IN  csys' = [A |-> ReducedMatrix(Lm, I), b |-> ReducedRhs(Lm, I, g)]
    /\ cspc' = "cg"
    /\ UNCHANGED <<inVars, csfun, cgv, cginfo, csret, csout, OutsideSolve>>

\* constrained_solve, lines 569-572
CSConjugateGradient ==
    /\ cspc = "cg"
    /\ cgv' \in [DOMAIN csys.b -> CGValues]
    /\ cginfo' \in CGInfos(Size(csys.b))
    /\ cspc' = "scatter"
    /\ UNCHANGED <<inVars, csfun, csys, csret, csout, OutsideSolve>>

\* constrained_solve, lines 575-580
CSScatter ==
    /\ cspc = "scatter"
    /\ csret' = Returned(Scatter(I, g, cgv), cginfo)
    /\ cspc' = "returned"
    /\ UNCHANGED <<inVars, csfun, csys, cgv, cginfo, csout, OutsideSolve>>

NextSolve ==
    \/ PCGSolve
    \/ CSReduce
    \/ CSConjugateGradient
    \/ CSScatter

SpecSolve == InitSolve /\ [][NextSolve]_vars

\* C2: constrained_solve returns g at every index of I and the solver's
\* values, in order, at exactly the indices not in I.
ConstraintsAssigned ==
    (cspc = "returned" /\ csfun = "constrained_solve") =>
        /\ \A k \in DOMAIN I : csret.u[I[k]] = g[k]
        /\ \A k \in DOMAIN cgv : csret.u[FreeIndices(I)[k]] = cgv[k]
        /\ Range(FreeIndices(I)) = Vertices \ Range(I)

\* constrained_solve has returned a vector in which a free entry differs
\* from every label and a label differs from the 1 the vector is built from
ConstrainedSolveReturned ==
    /\ cspc = "returned" /\ csfun = "constrained_solve"
    /\ \E k \in DOMAIN I : g[k] # 1
    /\ \E k \in DOMAIN cgv : cgv[k] \notin Range(g)

\* C10: when cg stopped at its iteration cap, the call returns the iterate
\* and reports the non-convergence with it.
NonConvergenceReported ==
    (cspc = "returned" /\ cginfo > 0) =>
        /\ csret.u \in {cgv, Scatter(I, g, cgv)}
        /\ ("info" \in DOMAIN csret \/ csout # <<>>)

(***************************************************************************)
(* plaplace_solve called with sol_method "SemiImplicit" or with a token    *)
(* it does not know (SpecPL) and with "GradientDescent" (SpecGD).  The     *)
(* graphs are the weighted paths 0 - 1 - ... - N-1,                        *)
(* so every degree is positive; the labels are the +1/-1 values graph_ssl  *)
(* passes; norm is "none".  The floats of the source are kept as fractions *)
(* [num, den] of integers.                                                 *)
(***************************************************************************)
MaxIter == 2     \* loop bodies of plaplace_solve that are followed

\* err = 1e6
ErrInit == 1000000

\* the bound of "while err > 1e-1"
ErrBound == [num |-> 1, den |-> 10]

PathWeights == {1, 2}

PathGraphs ==
    {[i \in Vertices |-> [j \in Vertices |->
        IF j = i + 1 THEN f[i] ELSE IF i = j + 1 THEN f[j] ELSE 0]] :
     f \in [0 .. N - 2 -> PathWeights]}

\* h = 2*(g==l)-1
SignArrays(k) == [0 .. k - 1 -> {-1, 1}]

PValues == {2, 3}

SolMethods == {"SemiImplicit", "Newton"}

Abs(x) == IF x < 0 THEN 0 - x ELSE x

MaxOf(S) == CHOOSE x \in S : \A y \in S : y <= x

\* Euclid's algorithm, each step on the values of its two arguments
RECURSIVE GCD(_, _)
GCD(a0, b0) ==
    CHOOSE r \in {IF b = 0 THEN a ELSE GCD(b, a % b) : a \in {a0}, b \in {b0}} : TRUE

\* the fraction x/y in lowest terms, y > 0
Frac(x, y) == LET c == GCD(Abs(x), y) IN [num |-> x \div c, den |-> y \div c]

FracAdd(a, b) == Frac(a.num * b.den + b.num * a.den, a.den * b.den)

FracDiv(a, b) == Frac(a.num * b.den, a.den * b.num)

FracLess(a, b) == a.num * b.den < b.num * a.den

\* np.sum of an array of fractions
RECURSIVE FracSum(_, _)
FracSum(a, j) == IF j = Size(a) THEN Frac(0, 1) ELSE FracAdd(a[j], FracSum(a, j + 1))

FracSub(a, b) == Frac(a.num * b.den - b.num * a.den, a.den * b.den)

\* W.max()
MaxWeight(Wm) == MaxOf({Wm[i][j] : i \in Vertices, j \in Vertices})

\* (W.max() times) -L*u for the Laplacian of W/W.max(): sum_j W[i][j]*(u[j] - u[i])
L2(Wm, ua) ==
    LET RECURSIVE RowSum(_, _)
        RowSum(i, j) == IF j = N THEN 0 ELSE Wm[i][j] * (ua[j] - ua[i]) + RowSum(i, j + 1)
    IN  [i \in Vertices |-> RowSum(i, 0)]

\* graph_infinity_laplacian: the least plus the greatest entry of each row
\* of the matrix of V*(u[J]-u[I]); a row that is not full counts its
\* absent entries as 0, and no row is full since the diagonal of W is empty
GraphInfinityLaplacian(Wm, ua) ==
    [i \in Vertices |->
        LET S == {0} \cup {Wm[i][j] * (ua[j] - ua[i]) : j \in {x \in Vertices : Wm[i][x] # 0}}
        IN  MinOf(S) + MaxOf(S)]

\* res = alpha*L2u/dx + delta*LIu; res[I] = 0, with alpha = 1/p,
\* delta = 1 - 2/p and W divided by W.max():
\* res[i] = (wmax*L2[i] + (p-2)*deg[i]*LI[i]) / (p*deg[i]*wmax)
Residual(Wm, ua, pval, Ix) ==
    LET wmax == MaxWeight(Wm)
        deg  == Degrees(Wm)
        full == [i \in Vertices |->
                    [num |-> wmax * L2(Wm, ua)[i]
                               + (pval - 2) * deg[i] * GraphInfinityLaplacian(Wm, ua)[i],
                     den |-> pval * deg[i] * wmax]]
    IN  AssignAt(full, Ix, [k \in DOMAIN Ix |-> [num |-> 0, den |-> 1]], 0)

\* np.max(np.absolute(res)) <= 1e-1
ResidualSmall(r) ==
    \A i \in DOMAIN r : Abs(r[i].num) * ErrBound.den <= ErrBound.num * r[i].den

\* the results constrained_solve may give: the labels at I and any values
\* of the cg iterate elsewhere
ConstrainedSolutions(Ix, gg) ==
    {Scatter(Ix, gg, x) : x \in [DOMAIN FreeIndices(Ix) -> CGValues]}

\* lines 776-777 and 785-786: c*np.ones((n,)) with the entries at I set to g
PinnedAt(c, Ix, gg) ==
    AssignAt([j \in Vertices |-> Frac(c, 1)], Ix, [k \in DOMAIN Ix |-> Frac(gg[k], 1)], 0)

FracMul(a, b) == Frac(a.num * b.num, a.den * b.den)

FracMin(S) == CHOOSE x \in S : \A y \in S : ~FracLess(y, x)

FracMax(S) == CHOOSE x \in S : \A y \in S : ~FracLess(x, y)

\* line 789: dt = 0.9/(alpha + 2*delta) with alpha = 1/p and delta = 1 - 2/p
TimeStep(pval) == Frac(9 * pval, 10 * (2 * pval - 3))

\* one entry W[i][j]*(u[j] - u[i]) of a row, u an array of fractions
EdgeDifference(Wm, ua, i, j) == FracMul(Frac(Wm[i][j], 1), FracSub(ua[j], ua[i]))

\* alpha*L2uu/dx + delta*LIuu with the assignment res[I] = 0 left out
ResidualUnpinned(Wm, ua, pval, Ix) ==
    LET wmax == MaxWeight(Wm)
        deg  == Degrees(Wm)
    IN  [i \in Vertices |->
            LET S  == {Frac(0, 1)} \cup
                      {EdgeDifference(Wm, ua, i, j) : j \in {x \in Vertices : Wm[i][x] # 0}}
                sm == FracSum([j \in Vertices |-> EdgeDifference(Wm, ua, i, j)], 0)
            IN  FracAdd(FracDiv(sm, Frac(pval * deg[i], 1)),
                        FracMul(Frac(pval - 2, pval * wmax),
                                FracAdd(FracMin(S), FracMax(S))))]

\* lines 845-848 and 853-856: res = alpha*L2uu/dx + delta*LIuu; res[I] = 0,
\* on an array of fractions
FracResidual(Wm, ua, pval, Ix) ==
    AssignAt(ResidualUnpinned(Wm, ua, pval, Ix), Ix, [k \in DOMAIN Ix |-> Frac(0, 1)], 0)

\* lines 849 and 857: uu = uu + dt*res
Advance(ua, dt, res) == [j \in DOMAIN ua |-> FracAdd(ua[j], FracMul(dt, res[j]))]

InitPL ==
    /\ W \in PathGraphs
    /\ I \in IndexArrays
    /\ g \in SignArrays(Size(I))
    /\ plp \in PValues
    /\ sol_method \in SolMethods
    /\ plpc = "start"
    /\ u = <<>> /\ labels = <<>>
    /\ NoPLLocals /\ NoHeap /\ NoDriver /\ NoNN /\ NoSSL /\ NoSolve /\ NoPoisson /\ NoFun
    /\ NoOVR

\* lines 753-790 and 826-827: the first solve, the labels set again, err and i
PLStart ==
    /\ plpc = "start"
    /\ \E x \in ConstrainedSolutions(I, g) : u' = AssignAt(x, I, g, 0)
    /\ plerr' = Frac(ErrInit, 1)
    /\ uu' = PinnedAt(MaxOf(Range(g)), I, g)
    /\ ul' = PinnedAt(MinOf(Range(g)), I, g)
    /\ pli' = 0
    /\ plpc' = "test"
    /\ UNCHANGED <<inVars, sol_method, plp, plres, OutsidePL>>

\* line 828: while err > 1e-1; lines 873-878 when it fails
PLTest ==
    /\ plpc = "test"
    /\ plpc' = IF FracLess(ErrBound, plerr) THEN "body" ELSE "returned"
    /\ UNCHANGED <<inVars, u, sol_method, plp, plerr, pli, plres, uu, ul, OutsidePL>>

\* lines 830-868: the body with sol_method "SemiImplicit"; err is not
\* assigned (line 839 is a comment)
PLSemiImplicit ==
    /\ plpc = "body"
    /\ sol_method = "SemiImplicit"
    /\ pli < MaxIter
    /\ pli' = pli + 1
    /\ plres' = Residual(W, u, plp, I)
    /\ u' \in ConstrainedSolutions(I, g)
    /\ plpc' = "test"
    /\ UNCHANGED <<inVars, sol_method, plp, plerr, uu, ul, OutsidePL>>

\* lines 830-838 and 869-871: the body with an unknown sol_method
PLInvalidMethod ==
    /\ plpc = "body"
    /\ sol_method \notin {"GradientDescent", "SemiImplicit"}
    /\ pli < MaxIter
    /\ pli' = pli + 1
    /\ plres' = Residual(W, u, plp, I)
    /\ plpc' = "exit"
    /\ UNCHANGED <<inVars, u, sol_method, plp, plerr, uu, ul, OutsidePL>>

\* lines 830-865: the body with sol_method "GradientDescent"; plres keeps
\* the last res, that of ul
PLGradientDescent ==
    /\ plpc = "body"
    /\ sol_method = "GradientDescent"
    /\ pli < MaxIter
    /\ pli' = pli + 1
    /\ LET dt  == TimeStep(plp)
           uu1 == Advance(uu, dt, FracResidual(W, uu, plp, I))
           ul1 == Advance(ul, dt, FracResidual(W, ul, plp, I))
       IN  /\ uu' = uu1
           /\ ul' = ul1
           /\ plres' = FracResidual(W, ul, plp, I)
           /\ plerr' = FracMax({FracSub(uu1[j], ul1[j]) : j \in Vertices})
           /\ u' = [j \in Vertices |-> FracDiv(FracAdd(uu1[j], ul1[j]), Frac(2, 1))]
    /\ plpc' = "test"
    /\ UNCHANGED <<inVars, sol_method, plp, OutsidePL>>

NextPL ==
    \/ PLStart
    \/ PLTest
    \/ PLSemiImplicit
    \/ PLInvalidMethod

SpecPL == InitPL /\ [][NextPL]_vars

\* plaplace_solve called with sol_method "GradientDescent"
InitGD ==
    /\ W \in PathGraphs
    /\ I \in IndexArrays
    /\ g \in SignArrays(Size(I))
    /\ plp \in PValues
    /\ sol_method = "GradientDescent"
    /\ plpc = "start"
    /\ u = <<>> /\ labels = <<>>
    /\ NoPLLocals /\ NoHeap /\ NoDriver /\ NoNN /\ NoSSL /\ NoSolve /\ NoPoisson /\ NoFun
    /\ NoOVR

NextGD ==
    \/ PLStart
    \/ PLTest
    \/ PLGradientDescent

SpecGD == InitGD /\ [][NextGD]_vars

\* C8: with sol_method SemiImplicit the loop exits as soon as the max-norm
\* of the residual of the current iterate is at most 1e-1: the body is not
\* entered again after a body that computed such a residual.
SemiImplicitStopsAtSmallResidual ==
    ~(/\ sol_method = "SemiImplicit"
      /\ plpc = "body"
      /\ pli >= 1
      /\ ResidualSmall(plres))

\* line 868: tol=err/100, err being the variable the loop tests
Tolerance(err) == FracDiv(err, Frac(100, 1))

\* x is 1/100 of the max-norm of the array r of fractions
HundredthOfMaxNorm(x, r) ==
    /\ \A i \in DOMAIN r : Abs(r[i].num) * x.den <= 100 * x.num * r[i].den
    /\ \E i \in DOMAIN r : Abs(r[i].num) * x.den = 100 * x.num * r[i].den

\* C22: in each step of the SemiImplicit iteration the tolerance passed to
\* constrained_solve is the max-norm of the residual of the current iterate
\* divided by 100.
ToleranceFollowsResidual ==
    [][(plpc = "body" /\ sol_method = "SemiImplicit" /\ plpc' = "test") =>
          HundredthOfMaxNorm(Tolerance(plerr), plres')]_vars

\* C29: in the GradientDescent iteration both bracketing sequences stay
\* pinned at the labeled vertices: uu[i] = ul[i] = the value of g at i for
\* every i in I after every step, and so does the average (uu+ul)/2 that is
\* returned (norm is "none").
BracketsPinnedAtLabels ==
    (sol_method = "GradientDescent" /\ plpc \in {"test", "body", "returned"}) =>
        \A k \in DOMAIN I :
            /\ uu[I[k]] = Frac(g[k], 1)
            /\ ul[I[k]] = Frac(g[k], 1)
            /\ pli >= 1 => u[I[k]] = Frac(g[k], 1)

\* the iteration returned after steps that moved the two sequences apart
\* from their start at an unlabeled vertex
GradientDescentReturned ==
    /\ sol_method = "GradientDescent"
    /\ plpc = "returned"
    /\ pli >= 1
    /\ \E j \in Vertices \ Range(I) : uu[j] # PinnedAt(MaxOf(Range(g)), I, g)[j]

(***************************************************************************)
(* poisson and its diffusion loop on the CPU.  The graphs are connected,   *)
(* so every degree is positive.  v and vinf are arrays of fractions        *)
(* [num, den] in lowest terms.  D is taken as 1/degree: the 1e-10 that     *)
(* line 1451 adds to each degree is left out, which changes no entry of v  *)
(* that is 0.  The loop also writes u, which its test does not read; u     *)
(* and the source term b are not followed here.                            *)
(***************************************************************************)
MaxT   == 3      \* T is counted up to MaxT
MaxDen == 8      \* denominators of v that are followed

PoissonWeights == {0, 1, 3}

PoissonGraphs ==
    {Wm \in {[i \in Vertices |-> [j \in Vertices |->
                 IF i = j THEN 0 ELSE IF i < j THEN f[<<i, j>>] ELSE f[<<j, i>>]]] :
              f \in [Pairs -> PoissonWeights]} :
        Component(Wm, {0}) = Vertices}

PoissonLabels == {0, 1}

\* num_labels[i] = np.sum(g==unique_labels[i])
NumLabels(gg) ==
    [r \in DOMAIN Unique(gg) |-> Cardinality({j \in DOMAIN gg : gg[j] = Unique(gg)[r]})]

\* W - (1-b)*D with b = 0: the diagonal removed
DiagMultiply(Wm) == [i \in Vertices |-> [j \in Vertices |-> IF i = j THEN 0 ELSE Wm[i][j]]]

\* J = zeros(n); J[I] = 1
LabeledMask(Ix) == AssignAt([j \in Vertices |-> 0], Ix, [k \in DOMAIN Ix |-> 1], 0)

\* Kg = LabelsToVec(K)*J scaled by 1/num_labels row by row; v = max(Kg, axis=0)
ColumnMax(X, Ix, gg) ==
    [j \in Vertices |->
        LET S == {Frac(X[r][j] * LabeledMask(Ix)[j], NumLabels(gg)[r]) : r \in DOMAIN X}
        IN  CHOOSE x \in S : \A y \in S : ~FracLess(x, y)]

\* v = v/np.sum(v)
Normalized(a) == [j \in DOMAIN a |-> FracDiv(a[j], FracSum(a, 0))]

\* vinf = degrees(W)/np.sum(degrees(W))
StationaryV(Wm) ==
    LET deg == Degrees(Wm)
        RECURSIVE Vol(_)
        Vol(j) == IF j = N THEN 0 ELSE deg[j] + Vol(j + 1)
    IN  [j \in Vertices |-> Frac(deg[j], Vol(0))]

\* RW*v with RW = W*D: entry i is the sum over j of W[i][j]*v[j]/deg[j],
\* added up over the common denominator cd
RandomWalkStep(Wm, vv) ==
    LET deg == Degrees(Wm)
        RECURSIVE Prod(_)
        Prod(j) == IF j = N THEN 1 ELSE deg[j] * vv[j].den * Prod(j + 1)
        cd == Prod(0)
        RECURSIVE RowSum(_, _)
        RowSum(i, j) ==
            IF j = N THEN 0
            ELSE Wm[i][j] * vv[j].num * (cd \div (deg[j] * vv[j].den)) + RowSum(i, j + 1)
    IN  [i \in Vertices |-> Frac(RowSum(i, 0), cd)]

\* np.max(np.absolute(v-vinf)) > 1/n
NotMixed(vv, vi) ==
    \E i \in Vertices :
        N * Abs(vv[i].num * vi[i].den - vi[i].num * vv[i].den) > vv[i].den * vi[i].den

\* num_labels[g[j]] of line 1446 raises IndexError for a label outside -k..k-1
LabelIndexError(gg) ==
    \E j \in DOMAIN gg : gg[j] >= Size(Unique(gg)) \/ gg[j] < 0 - Size(Unique(gg))

InitPoisson ==
    /\ W \in PoissonGraphs
    /\ I \in IndexArrays
    /\ g \in [DOMAIN I -> PoissonLabels]
    /\ ppc = "start"
    /\ NoPoissonLocals /\ NoOutput /\ NoHeap /\ NoDriver /\ NoNN /\ NoSSL /\ NoSolve /\ NoPL /\ NoFun
    /\ NoOVR

\* lines 1418-1463
PoissonSetup ==
    /\ ppc = "start"
    /\ LET Wd == DiagMultiply(W)
           r  == LabelsToVec(FilledLabels(I, g))
       IN  IF r.err \/ LabelIndexError(g)
           THEN /\ ppc' = "error"
                /\ UNCHANGED <<pv, vinf, pT>>
           ELSE /\ pv' = Normalized(ColumnMax(r.X, I, g))
                /\ vinf' = StationaryV(Wd)
                /\ pT' = 0
                /\ ppc' = "loop"
    /\ UNCHANGED <<inVars, OutsidePoisson>>

\* lines 1483-1486, v within the denominators followed
PoissonIterate ==
    /\ ppc = "loop"
    /\ NotMixed(pv, vinf)
    /\ LET nv == RandomWalkStep(DiagMultiply(W), pv)
       IN  /\ \A i \in Vertices : nv[i].den <= MaxDen
           /\ pv' = nv
    /\ pT' = IF pT < MaxT THEN pT + 1 ELSE pT
    /\ UNCHANGED <<inVars, ppc, vinf, OutsidePoisson>>

\* lines 1483-1486, v beyond the denominators followed
PoissonCutoff ==
    /\ ppc = "loop"
    /\ NotMixed(pv, vinf)
    /\ \E i \in Vertices : RandomWalkStep(DiagMultiply(W), pv)[i].den > MaxDen
    /\ ppc' = "cutoff"
    /\ UNCHANGED <<inVars, pv, vinf, pT, OutsidePoisson>>

\* lines 1483 and 1498
PoissonReturn ==
    /\ ppc = "loop"
    /\ ~NotMixed(pv, vinf)
    /\ ppc' = "returned"
    /\ UNCHANGED <<inVars, pv, vinf, pT, OutsidePoisson>>

NextPoisson ==
    \/ PoissonSetup
    \/ PoissonIterate
    \/ PoissonCutoff
    \/ PoissonReturn

\* a step of the loop, its exit included
LoopStep == PoissonIterate \/ PoissonCutoff \/ PoissonReturn

\* a call that is in the loop keeps running
SpecPoisson == InitPoisson /\ [][NextPoisson]_vars /\ WF_vars(LoopStep)

\* an entry of v is exactly 0 at a vertex whose entry of vinf exceeds 1/n
ZeroEntryNotMixed ==
    \E i \in DOMAIN pv : pv[i].num = 0 /\ N * vinf[i].num > vinf[i].den

MaxLen == 3      \* length of the label arrays given to LabelsToVec

\* label values, negative and non-consecutive ones among them
AnyLabels == {-2, -1, 0, 1, 3}

AnyLabelArrays == UNION {[0 .. m - 1 -> AnyLabels] : m \in 1 .. MaxLen}

\* symmetric matrices with nonnegative entries, the diagonal included
SymMatrices ==
    {[i \in Vertices |-> [j \in Vertices |-> IF i = j THEN dg[i] ELSE Wm[i][j]]] :
     Wm \in SymGraphs, dg \in [Vertices -> {0, 1}]}

\* values of norm: the four graph_laplacian knows and two it does not
NormTokens == {"none", "randomwalk1", "randomwalk2", "normalized", "Normalized", "sym"}

\* the message of line 229
LaplacianDiagnostic ==
    "Invalid option for graph Laplacian normalization. Returning unnormalized Laplacian."

\* a graph_laplacian that refuses a norm it does not know
GraphLaplacianStrict(Wm, norm) ==
    IF norm = "none" THEN [err |-> FALSE, L |-> GraphLaplacian(Wm), out |-> <<>>]
    ELSE [err |-> TRUE, L |-> <<>>, out |-> <<LaplacianDiagnostic>>]

\* graph_laplacian(W, norm), lines 213-232.  A scaled entry is kept as the
\* unnormalized entry and what divides it: num/den for the random-walk
\* forms (den the degree of the row or of the column; a degree 0 gives
\* den 0), num/sqrt(rad) for the normalized form.
GraphLaplacianNorm(Wm, norm) ==
    LET Lm  == GraphLaplacian(Wm)
        deg == Degrees(Wm)
    IN  CASE norm = "none" ->
               [err |-> FALSE, L |-> Lm, out |-> <<>>]
          [] norm = "randomwalk1" ->
               [err |-> FALSE, out |-> <<>>,
                L |-> [i \in Vertices |-> [j \in Vertices |->
                         [num |-> Lm[i][j], den |-> deg[i]]]]]
          [] norm = "randomwalk2" ->
               [err |-> FALSE, out |-> <<>>,
                L |-> [i \in Vertices |-> [j \in Vertices |->
                         [num |-> Lm[i][j], den |-> deg[j]]]]]
          [] norm = "normalized" ->
               [err |-> FALSE, out |-> <<>>,
                L |-> [i \in Vertices |-> [j \in Vertices |->
                         [num |-> Lm[i][j], rad |-> deg[i] * deg[j]]]]]
          [] OTHER ->
               [err |-> FALSE, L |-> Lm, out |-> <<LaplacianDiagnostic>>]

MaxRows == 3     \* rows of the matrices given to ProjectToSimplex

\* entries of the matrices given to ProjectToSimplex, as fractions
SimplexEntries == {Frac(x, 1) : x \in {-1, 0, 1, 2}}

\* k-by-1 matrices and the 2-by-2 matrices
SimplexInputs ==
    UNION {[0 .. k - 1 -> [0 .. 0 -> SimplexEntries]] : k \in 1 .. MaxRows}
    \cup [0 .. 1 -> [0 .. 1 -> SimplexEntries]]

\* -np.sort(-X,axis=0), one column: entry r is the value with at most r
\* entries above it and more than r entries not below it
SortDescending(col) ==
    [r \in DOMAIN col |->
        CHOOSE x \in Range(col) :
            /\ Cardinality({i \in DOMAIN col : FracLess(x, col[i])}) <= r
            /\ Cardinality({i \in DOMAIN col : ~FracLess(col[i], x)}) > r]

\* Sum = A@Xs with A lower triangular of ones: the running sums
RECURSIVE RunningSum(_, _)
RunningSum(xs, r) == IF r = 0 THEN xs[0] ELSE FracAdd(xs[r], RunningSum(xs, r - 1))

\* Max: (Sum - 1)/(arange(k)+1)
ThresholdAt(xs, r) ==
    LET sm == RunningSum(xs, r) IN Frac(sm.num - sm.den, sm.den * (r + 1))

\* Xs[:-1,:] = Xs[1:,:]; Xs[-1,:] = (Sum[k-1,:]-1)/k
ShiftedAt(xs, r) == IF r < Size(xs) - 1 THEN xs[r + 1] ELSE ThresholdAt(xs, Size(xs) - 1)

\* a threshold that is always the one of the last row
ThresholdOfLastRow(col) == ThresholdAt(SortDescending(col), Size(col) - 1)

\* Max[I,range(n)] with I = np.argmax(Max >= Xs,axis=0), one column: the
\* threshold of the first row where Max >= Xs, of row 0 if there is none
Threshold(col) ==
    LET xs == SortDescending(col)
        T  == {r \in DOMAIN xs : ~FracLess(ThresholdAt(xs, r), ShiftedAt(xs, r))}
    IN  ThresholdAt(xs, IF T = {} THEN 0 ELSE MinOf(T))

\* the subtraction without np.maximum
ShiftOnly(x, th) == FracSub(x, th)

\* np.maximum(X - Max[I,range(n)], 0), one entry
ShiftAndClip(x, th) == IF FracLess(x, th) THEN Frac(0, 1) ELSE FracSub(x, th)

\* ProjectToSimplex, lines 932-945
ProjectToSimplex(X) ==
    [r \in DOMAIN X |-> [c \in DOMAIN X[0] |->
        ShiftAndClip(X[r][c], Threshold([q \in DOMAIN X |-> X[q][c]]))]]

\* the inputs of poisson that decide its source term: I and a g over any
\* alphabet
SourceInputs ==
    UNION {[I : {Ix}, g : [DOMAIN Ix -> AnyLabels]] : Ix \in IndexArrays}

\* num_labels[g[j]] of line 1446: the count array is indexed by the label
\* value itself; IndexError outside -k..k-1
CountAtLabel(gg, j) == NumLabels(gg)[PyIdx(gg[j], Size(Unique(gg)))]

\* the count of the class of g[j]
CountOfClass(gg, j) == Cardinality({x \in DOMAIN gg : gg[x] = gg[j]})

\* lines 1432-1437: Kg = LabelsToVec(K)*J with row r times 1/num_labels[r]
ScaledIndicators(Ix, gg) ==
    LET X == LabelsToVec(FilledLabels(Ix, gg)).X
    IN  [r \in DOMAIN X |->
            [j \in Vertices |-> Frac(X[r][j] * LabeledMask(Ix)[j], NumLabels(gg)[r])]]

\* lines 1441-1447: c = sum(Kg, axis=1)/k; b = Kg transposed; for the j-th
\* labeled vertex i, b[i,:] = b[i,:] - c/num_labels[g[j]]
RECURSIVE CenterRows(_, _, _, _, _)
CenterRows(b, c, Ix, gg, j) ==
    IF j = Size(Ix) THEN b
    ELSE LET i   == Ix[j]
             row == [r \in DOMAIN c |->
                        FracSub(b[i][r], FracDiv(c[r], Frac(CountAtLabel(gg, j), 1)))]
         IN  CenterRows([b EXCEPT ![i] = row], c, Ix, gg, j + 1)

\* the source term b of poisson, lines 1418-1447
PoissonSource(Ix, gg) ==
    IF LabelsToVec(FilledLabels(Ix, gg)).err \/ LabelIndexError(gg)
    THEN [err |-> TRUE, b |-> <<>>, Kg |-> <<>>]
    ELSE LET Kg == ScaledIndicators(Ix, gg)
             k  == Size(Unique(gg))
             c  == [r \in DOMAIN Kg |-> FracDiv(FracSum(Kg[r], 0), Frac(k, 1))]
             b0 == [i \in Vertices |-> [r \in DOMAIN Kg |-> Kg[r][i]]]
         IN  [err |-> FALSE, b |-> CenterRows(b0, c, Ix, gg, 0), Kg |-> Kg]

InitFun ==
    /\ \/ fname = "LabelsToVec" /\ farg \in AnyLabelArrays
       \/ fname = "graph_laplacian" /\ farg \in [W : SymMatrices, norm : NormTokens]
       \/ fname = "ProjectToSimplex" /\ farg \in SimplexInputs
       \/ fname = "poisson" /\ farg \in SourceInputs
    /\ fret = <<>> /\ fout = <<>> /\ fpc = "start"
    /\ NoInputs /\ NoOutput /\ NoHeap /\ NoDriver /\ NoNN /\ NoSSL
    /\ NoSolve /\ NoPL /\ NoPoisson
    /\ NoOVR

\* LabelsToVec, lines 948-961
CallLabelsToVec ==
    /\ fpc = "start"
    /\ fname = "LabelsToVec"
    /\ fret' = LabelsToVec(farg)
    /\ fpc' = IF LabelsToVec(farg).err THEN "error" ELSE "returned"
    /\ UNCHANGED <<fname, farg, fout, OutsideFun>>

\* graph_laplacian, lines 213-232
CallGraphLaplacian ==
    /\ fpc = "start"
    /\ fname = "graph_laplacian"
    /\ LET r == GraphLaplacianNorm(farg.W, farg.norm)
       IN  /\ fret' = r.L
           /\ fout' = r.out
           /\ fpc' = IF r.err THEN "error" ELSE "returned"
    /\ UNCHANGED <<fname, farg, OutsideFun>>

\* ProjectToSimplex, lines 932-945
CallProjectToSimplex ==
    /\ fpc = "start"
    /\ fname = "ProjectToSimplex"
    /\ fret' = ProjectToSimplex(farg)
    /\ fpc' = "returned"
    /\ UNCHANGED <<fname, farg, fout, OutsideFun>>

\* ProjectToSimplex called on what it returned
CallProjectToSimplexAgain ==
    /\ fpc = "returned"
    /\ fname = "ProjectToSimplex"
    /\ farg' = fret
    /\ fret' = ProjectToSimplex(fret)
    /\ fpc' = "returned2"
    /\ UNCHANGED <<fname, fout, OutsideFun>>

\* poisson up to its source term, lines 1418-1447
CallPoissonSource ==
    /\ fpc = "start"
    /\ fname = "poisson"
    /\ fret' = PoissonSource(farg.I, farg.g)
    /\ fpc' = IF PoissonSource(farg.I, farg.g).err THEN "error" ELSE "returned"
    /\ UNCHANGED <<fname, farg, fout, OutsideFun>>

NextFun ==
    \/ CallLabelsToVec
    \/ CallGraphLaplacian
    \/ CallProjectToSimplex
    \/ CallProjectToSimplexAgain
    \/ CallPoissonSource

SpecFun == InitFun /\ [][NextFun]_vars

\* the rank of x among the distinct values of arr
RankIn(arr, x) == Cardinality({y \in Range(arr) : y < x})

\* C12: LabelsToVec(L) returns the sorted distinct labels of L and a k-by-n
\* 0/1 matrix whose column j has its single 1 in the row that is the rank
\* of L[j] among them, for any label values.
LabelsToVecOneHotByRank ==
    (fname = "LabelsToVec" /\ fpc # "start") =>
        /\ fpc = "returned"
        /\ DOMAIN fret.labels = 0 .. Cardinality(Range(farg)) - 1
        /\ \A r \in DOMAIN fret.labels : RankIn(farg, fret.labels[r]) = r
        /\ Range(fret.labels) = Range(farg)
        /\ DOMAIN fret.X = DOMAIN fret.labels
        /\ \A r \in DOMAIN fret.X : \A j \in DOMAIN farg :
              fret.X[r][j] = IF r = RankIn(farg, farg[j]) THEN 1 ELSE 0

\* the sum of row i of the matrix M
RECURSIVE RowTotal(_, _, _)
RowTotal(M, i, j) == IF j = N THEN 0 ELSE M[i][j] + RowTotal(M, i, j + 1)

\* C13: every row of graph_laplacian(W, norm="none") sums to zero, for any
\* symmetric nonnegative W.
LaplacianRowsSumToZero ==
    (fname = "graph_laplacian" /\ fpc = "returned" /\ farg.norm = "none") =>
        \A i \in Vertices : RowTotal(fret, i, 0) = 0

\* the unnormalized Laplacian was returned for a W with an entry on its
\* diagonal and an entry other than 1 off it
LaplacianOfLoopedGraph ==
    /\ fname = "graph_laplacian" /\ fpc = "returned" /\ farg.norm = "none"
    /\ \E i \in Vertices : farg.W[i][i] # 0
    /\ \E i, j \in Vertices : i # j /\ farg.W[i][j] > 1

ColumnsOnSimplex ==
    (fname = "ProjectToSimplex" /\ fpc \in {"returned", "returned2"}) =>
        \A c \in DOMAIN fret[0] :
            /\ \A r \in DOMAIN fret : fret[r][c].num >= 0
            /\ FracSum([r \in DOMAIN fret |-> fret[r][c]], 0) = Frac(1, 1)

\* a column with a negative entry and a sum other than 1 was projected
ProjectedFromOutside ==
    /\ fname = "ProjectToSimplex" /\ fpc = "returned"
    /\ \E c \in DOMAIN farg[0] :
          /\ \E r \in DOMAIN farg : farg[r][c].num < 0 /\ fret[r][c].num = 0
          /\ \E r \in DOMAIN farg : fret[r][c] \notin {farg[r][c], Frac(0, 1)}

\* C16: ProjectToSimplex is idempotent: called on its own result it
\* returns that result.
ProjectionIdempotent ==
    (fname = "ProjectToSimplex" /\ fpc = "returned2") => fret = farg

\* the second projection has returned a column with a clipped entry and an
\* entry that is not an integer
ProjectedTwice ==
    /\ fname = "ProjectToSimplex" /\ fpc = "returned2"
    /\ \E c \in DOMAIN fret[0] :
          /\ \E r \in DOMAIN fret : fret[r][c].num = 0
          /\ \E r \in DOMAIN fret : fret[r][c].den > 1

\* C23: for g over any finite alphabet poisson builds its source term b
\* without error; before the centering the labeled vertices of class c have
\* weight 1/n_c in column c, and every column of b sums to zero.
SourceColumnsSumToZero ==
    (fname = "poisson" /\ fpc # "start") =>
        /\ fpc = "returned"
        /\ \A j \in DOMAIN farg.g : \E r \in DOMAIN fret.Kg :
              /\ fret.Kg[r][farg.I[j]] = Frac(1, CountOfClass(farg.g, j))
              /\ \A q \in DOMAIN fret.Kg : q # r => fret.Kg[q][farg.I[j]].num = 0
        /\ \A r \in DOMAIN fret.Kg :
              FracSum([i \in Vertices |-> fret.b[i][r]], 0).num = 0

(***************************************************************************)
(* The one-vs-rest branch of graph_ssl, lines 1952-1985.  The source runs  *)
(* the binary solves of the classes one after the other; here the solve of *)
(* each class is a task of three steps (h, the solver call, the row of u)  *)
(* and the tasks are taken in any order, their steps interleaved.  The     *)
(* class of rank r in np.unique(g) writes row r: that is the value the     *)
(* counter i has when the loop of the source reaches the class.  The       *)
(* solver is plaplace_solve.  cg computes its result from its arguments    *)
(* alone, so the array v is kept as the arguments that determine it        *)
(* together with its entries at I, which the solver sets to h.             *)
(***************************************************************************)
Classes == DOMAIN ovrpc

\* u = np.zeros((k,n)), line 1955
EmptyRow == [from |-> <<>>, at |-> [j \in Vertices |-> 0]]

\* the +1/-1 array written into g itself
SignsInPlace(gg, lab) ==
    [obj |-> "g", val |-> [j \in DOMAIN gg |-> IF gg[j] = lab THEN 1 ELSE -1]]

\* line 1958: h = 2*(g==l)-1, a new array ("new"), not the g of the call ("g")
Signs(gg, lab) ==
    [obj |-> "new", val |-> [j \in DOMAIN gg |-> IF gg[j] = lab THEN 1 ELSE -1]]

\* line 753: W = W/W.max() binds a new matrix to the local name W
NormalizedWeights(Wm) ==
    [i \in Vertices |-> [j \in Vertices |-> Frac(Wm[i][j], MaxWeight(Wm))]]

\* plaplace_solve(W,I,h,...): what it returns is determined by the matrix it
\* normalized and by I and h; lines 777 and 785 set its entries at I to h
BinarySolve(Wm, Ix, hh) ==
    [from |-> <<NormalizedWeights(Wm), Ix, hh>>,
     at   |-> AssignAt([j \in Vertices |-> 0], Ix, hh, 0)]

InitOVR ==
    /\ W \in PathGraphs
    /\ I \in IndexArrays
    /\ g \in LabelArrays(Size(I))
    /\ ovrpc = [r \in DOMAIN Unique(g) |-> "idle"]
    /\ hcls = [r \in DOMAIN Unique(g) |-> <<>>]
    /\ vcls = [r \in DOMAIN Unique(g) |-> <<>>]
    /\ u = [r \in DOMAIN Unique(g) |-> EmptyRow]
    /\ labels = <<>>
    /\ NoHeap /\ NoDriver /\ NoNN /\ NoSSL /\ NoSolve /\ NoPL /\ NoPoisson /\ NoFun

\* line 1958 for the class of rank r
OVRSigns(r) ==
    /\ ovrpc[r] = "idle"
    /\ LET hh == Signs(g, Unique(g)[r])
       IN  /\ hcls' = [hcls EXCEPT ![r] = hh.val]
           /\ g' = IF hh.obj = "g" THEN hh.val ELSE g
    /\ ovrpc' = [ovrpc EXCEPT ![r] = "signs"]
    /\ UNCHANGED <<W, I, u, vcls, OutsideOVR>>

\* lines 1961-1978: the solver call of the class of rank r
OVRSolve(r) ==
    /\ ovrpc[r] = "signs"
    /\ vcls' = [vcls EXCEPT ![r] = BinarySolve(W, I, hcls[r])]
    /\ ovrpc' = [ovrpc EXCEPT ![r] = "solved"]
    /\ UNCHANGED <<inVars, u, hcls, OutsideOVR>>

\* line 1984: u[i,:] = v
OVRWrite(r) ==
    /\ ovrpc[r] = "solved"
    /\ u' = [u EXCEPT ![r] = vcls[r]]
    /\ ovrpc' = [ovrpc EXCEPT ![r] = "written"]
    /\ UNCHANGED <<inVars, hcls, vcls, OutsideOVR>>

NextOVR ==
    \/ \E r \in Classes : OVRSigns(r)
    \/ \E r \in Classes : OVRSolve(r)
    \/ \E r \in Classes : OVRWrite(r)

SpecOVR == InitOVR /\ [][NextOVR]_vars

====
